---- MODULE Spec2Model ----
(***************************************************************************)
(* Model of the Android test-maintenance scripts:                          *)
(*   sync_ui_tests.py  (test-file syncer, method pruning),                 *)
(*   run_tests.py      (test runner),                                      *)
(*   count_loc.py      (line-diff tally),                                  *)
(*   find_ui_tests.py  (UI-test scanner).                                  *)
(*                                                                         *)
(* Text is modelled as a sequence of pieces.  Every piece stands for a     *)
(* fixed fragment of real text, so that a model text is the image of a     *)
(* real file and the regular expressions of sync_ui_tests.py match the     *)
(* real file exactly where the model says they match:                      *)
(*     "T"  @Test                 "P"  @ParameterizedTest                   *)
(*     "B"  @Before               "n"  a line break                         *)
(*     "a"  fun a()               "b"  fun b()                              *)
(*     "q"  fun a() with its name in back-ticks     "v"  public void a()    *)
(*     "{"  an opening brace      "}"  a closing brace                      *)
(*     "s"  indentation           "m"  the modifier private and a blank     *)
(*     "u"  a UI call, onView(x)                                            *)
(* Offsets are Python offsets (0-based); src[i] is At(src, i) and          *)
(* src[x:y] is Slice(src, x, y).                                           *)
(***************************************************************************)
EXTENDS Integers, Sequences, FiniteSets, TLC

VARIABLES
    \* ---- strip_unwanted_tests (sync_ui_tests.py:133-163) ----
    src,        \* the text being pruned
    keep,       \* the wanted method names
    ext,        \* ".kt" or ".java"
    pos,        \* where pat.finditer resumes scanning
    out,        \* the pieces emitted so far
    last,       \* the copy cursor
    spc,        \* "loop", "done" (the function returned) or "idle"
    pass,       \* 1: first run, 2: re-run on the first run's output
    orig,       \* the text the first run was given
    emitted,    \* history: the offsets of src emitted so far, in order
    spans,      \* history: the spans <<start, stop>> this run deleted
    firstSpans, \* history: the spans the first run deleted, once it is re-run
    \* ---- main / sync_tests (sync_ui_tests.py:169-257) ----
    pc,         \* where main is: "main", "status", "parse", "resolve", "checkout",
                \* "rewrite", "exit" (the process ended) or "idle"
    exitCode,   \* the exit status once pc = "exit", -1 before
    exitHow,    \* "sys.exit", "traceback" (uncaught exception), "return" or ""
    gitDir,     \* environment: <repo>/.git is a directory
    treeStatus, \* environment: what git status --porcelain does: "clean",
                \* "dirty" (output) or "error" (non-zero exit)
    fqnsText,   \* environment: the lines of the FQN list at the old ref
    oldFiles,   \* environment: the paths that exist at the old ref
    wantedByClass, \* wanted_by_class, in insertion order: [cls, methods]
    idx,        \* how many classes the ResolvePaths loop has handled
    perFile,    \* per_file: path -> wanted method set
    warnings,   \* the classes reported NOT FOUND, in order
    head,       \* the ref the working tree is on: "start" or "new"
    written,    \* working tree: path -> content written by this run
    staged,     \* index: the paths this run staged
    nDone,      \* how many paths of sorted(per_file) were copied, pruned, staged
    failedOp,   \* the operation that ended the run, "" if none
    message,    \* the last line printed: "", "nothing to do", "done"
    log,        \* history: the git operations and file writes, in order
    \* ---- run_tests.py ----
    rpc,        \* "exists", "read", "check", "run", "exit" or "idle"
    rExit,      \* the exit status once rpc = "exit", -1 before
    rMessage,   \* the last message printed
    fileState,  \* environment: ui_test_fqns.txt is "absent", "unreadable" or "ok"
    fileLines,  \* environment: its lines
    testClasses,    \* test_classes
    gradleCommand,  \* gradle_command_full
    gradleRuns, \* how many times the build tool was invoked
    \* ---- tally (count_loc.py:48-61) ----
    tpc,        \* "loop", "done" (returned), "raised" (ValueError) or "idle"
    tLines,     \* lines
    tExts,      \* exts
    tIdx,       \* how many lines the loop has handled
    added,
    deleted,
    \* ---- extract_ui_test_names (find_ui_tests.py:99-130) ----
    fpc,        \* "loop", "done" (returned) or "idle"
    fLines,     \* lines: the lines of the file
    fIdx,       \* idx
    uiTestNames,    \* ui_test_names
    calls       \* history: the calls of _collect_method_body: start_idx, the
                \* body and index returned, and idx when the call was made

stripVars ==
    <<src, keep, ext, pos, out, last, spc, pass, orig, emitted, spans, firstSpans>>

syncVars ==
    <<pc, exitCode, exitHow, gitDir, treeStatus, fqnsText, oldFiles, wantedByClass,
      idx, perFile, warnings, head, written, staged, nDone, failedOp, message, log>>

runnerVars ==
    <<rpc, rExit, rMessage, fileState, fileLines, testClasses, gradleCommand, gradleRuns>>

tallyVars == <<tpc, tLines, tExts, tIdx, added, deleted>>

scanVars == <<fpc, fLines, fIdx, uiTestNames, calls>>

vars == <<stripVars, syncVars, runnerVars, tallyVars, scanVars>>

\* ------------------------------------------------------------------ components not running
StripIdle ==
    /\ src = <<>>
    /\ keep = {}
    /\ ext = ""
    /\ pos = 0
    /\ out = <<>>
    /\ last = 0
    /\ spc = "idle"
    /\ pass = 0
    /\ orig = <<>>
    /\ emitted = <<>>
    /\ spans = <<>>
    /\ firstSpans = <<>>

SyncIdle ==
    /\ pc = "idle"
    /\ exitCode = -1
    /\ exitHow = ""
    /\ gitDir = FALSE
    /\ treeStatus = ""
    /\ fqnsText = <<>>
    /\ oldFiles = {}
    /\ wantedByClass = <<>>
    /\ idx = 0
    /\ perFile = <<>>
    /\ warnings = <<>>
    /\ head = ""
    /\ written = <<>>
    /\ staged = {}
    /\ nDone = 0
    /\ failedOp = ""
    /\ message = ""
    /\ log = <<>>

RunnerIdle ==
    /\ rpc = "idle"
    /\ rExit = -1
    /\ rMessage = ""
    /\ fileState = ""
    /\ fileLines = <<>>
    /\ testClasses = <<>>
    /\ gradleCommand = <<>>
    /\ gradleRuns = 0

TallyIdle ==
    /\ tpc = "idle"
    /\ tLines = <<>>
    /\ tExts = <<>>
    /\ tIdx = 0
    /\ added = 0
    /\ deleted = 0

ScanIdle ==
    /\ fpc = "idle"
    /\ fLines = <<>>
    /\ fIdx = 0
    /\ uiTestNames = <<>>
    /\ calls = <<>>

\* ------------------------------------------------------------------ bounds
MaxChunks == 4

MaxLines == 3

MaxFileLines == 3

MaxRecords == 3

MaxScanLines == 5

\* ------------------------------------------------------------------ text
At(s, i) == s[i + 1]

Min(x, y) == IF x < y THEN x ELSE y

Max(x, y) == IF x > y THEN x ELSE y

\* Python's s[x:y] for 0 <= x, 0 <= y: empty when x >= y, clamped to len(s).
Slice(s, x, y) ==
    IF x >= Min(y, Len(s)) THEN <<>> ELSE SubSeq(s, x + 1, Min(y, Len(s)))

\* The offsets Slice(s, x, y) copies, in order.
SliceOffsets(s, x, y) ==
    IF x >= Min(y, Len(s)) THEN <<>>
    ELSE [k \in 1..(Min(y, Len(s)) - x) |-> x + k - 1]

RECURSIVE Flatten(_)
Flatten(ss) ==
    IF ss = <<>> THEN <<>> ELSE Head(ss) \o Flatten(Tail(ss))

\* ------------------------------------------------------------------ patterns
AnnotationPieces == {"T", "B", "P"}

\* The declaration heads each pattern accepts, and the name group 2 captures
\* ("bt" is a back-tick).
KtDecls == {"a", "b", "q"}

JavaDecls == {"v"}

RawName(d) ==
    CASE d = "a" -> <<"a">>
      [] d = "b" -> <<"b">>
      [] d = "q" -> <<"bt", "a", "bt">>
      [] d = "v" -> <<"a">>

\* The caret under re.MULTILINE: the start of the text or just after a line break.
LineStart(s, p) == p = 0 \/ At(s, p - 1) = "n"

\* The offset of the first line break at or after p, or -1.
RECURSIVE FindBreak(_, _)
FindBreak(s, p) ==
    IF p >= Len(s) THEN -1
    ELSE IF At(s, p) = "n" THEN p
    ELSE FindBreak(s, p + 1)

\* Group 1 of the patterns (one or more annotation lines) tried at offset p: the
\* offset just after the last annotation line of the longest run of annotation
\* lines starting at p, or -1 when no annotation line starts at p.
RECURSIVE BlockEnd(_, _)
BlockEnd(s, p) ==
    IF p < Len(s) /\ LineStart(s, p) /\ At(s, p) \in AnnotationPieces
          /\ FindBreak(s, p) >= 0
    THEN LET q == FindBreak(s, p) + 1
             r == BlockEnd(s, q)
         IN  IF r >= 0 THEN r ELSE q
    ELSE -1

NoMatch == [start |-> -1, end |-> -1, block |-> <<>>, raw |-> <<>>]

\* _KT_RE / _JAVA_RE tried at offset p.  The annotation lines are followed at
\* once by the declaration head and its opening brace; a shorter run of
\* annotation lines is followed by an annotation line, never by a declaration.
MatchAt(s, p, decls) ==
    LET q == BlockEnd(s, p)
    IN  IF q >= 0 /\ q + 1 < Len(s) /\ At(s, q) \in decls /\ At(s, q + 1) = "{"
        THEN [start |-> p, end |-> q + 2,
              block |-> Slice(s, p, q), raw |-> RawName(At(s, q))]
        ELSE NoMatch

\* The next match pat.finditer(src) yields when it resumes at offset p.
RECURSIVE NextMatch(_, _, _)
NextMatch(s, p, decls) ==
    IF p >= Len(s) THEN NoMatch
    ELSE IF LineStart(s, p) /\ At(s, p) \in AnnotationPieces
            /\ MatchAt(s, p, decls).start >= 0
    THEN MatchAt(s, p, decls)
    ELSE NextMatch(s, p + 1, decls)

Pattern(e) == IF e = ".kt" THEN KtDecls ELSE JavaDecls

\* The block holds the marker @Test or the marker @ParameterizedTest.
IsTestBlock(block) ==
    \E k \in 1..Len(block) : block[k] = "T" \/ block[k] = "P"

\* str.strip(chars)
RECURSIVE LStrip(_, _)
LStrip(s, chars) ==
    IF s # <<>> /\ Head(s) \in chars THEN LStrip(Tail(s), chars) ELSE s

RECURSIVE RStrip(_, _)
RStrip(s, chars) ==
    IF s # <<>> /\ s[Len(s)] \in chars
    THEN RStrip(SubSeq(s, 1, Len(s) - 1), chars) ELSE s

StripChars(s, chars) == RStrip(LStrip(s, chars), chars)

\* str.strip()
StripSpace(s) == StripChars(s, {" ", "n"})

\* raw_name.strip(back-tick).strip()
CleanName(raw) == StripSpace(StripChars(raw, {"bt"}))

\* The while loop of the deletion: from offset i at the given depth.
RECURSIVE BraceScan(_, _, _)
BraceScan(s, depth, i) ==
    IF depth # 0 /\ i < Len(s)
    THEN BraceScan(s,
                   IF At(s, i) = "{" THEN depth + 1
                   ELSE IF At(s, i) = "}" THEN depth - 1
                   ELSE depth,
                   i + 1)
    ELSE i

\* src.find(c, start): the offset, or -1
RECURSIVE Find(_, _, _)
Find(s, c, p) ==
    IF p >= Len(s) THEN -1
    ELSE IF At(s, p) = c THEN p
    ELSE Find(s, c, p + 1)

\* depth, i = 1, src.find(brace, m.end() - 1) + 1, then the while loop
BraceEnd(s, m) == BraceScan(s, 1, Find(s, "{", m.end - 1) + 1)

\* Whether the loop body reaches the deletion for match m.
Unwanted(m, ks) == IsTestBlock(m.block) /\ CleanName(m.raw) \notin ks

\* Mutant: the text before a deleted span is copied through the end of the match.
EmitBefore_ThroughMatch(s, lst, m) == Slice(s, lst, m.end)

\* out.append(src[last:m.start()])
EmitBefore(s, lst, m) == Slice(s, lst, m.start)

\* strip_unwanted_tests as a function: the loop over the matches from offset p
\* with the output o and the copy cursor lst, then the final append.
RECURSIVE StripLoop(_, _, _, _, _, _)
StripLoop(s, ks, decls, p, o, lst) ==
    LET m == NextMatch(s, p, decls)
    IN  IF m.start < 0 THEN o \o Slice(s, lst, Len(s))
        ELSE IF Unwanted(m, ks)
        THEN StripLoop(s, ks, decls, m.end, o \o EmitBefore(s, lst, m), BraceEnd(s, m))
        ELSE StripLoop(s, ks, decls, m.end, o, lst)

StripUnwantedTests(s, ks, e) == StripLoop(s, ks, Pattern(e), 0, <<>>, 0)

\* ------------------------------------------------------------------ inputs
\* The texts the pruning is run on: up to MaxChunks of these fragments.
Chunks ==
    { <<"T", "n", "a", "{">>,      \* an @Test method a
      <<"T", "n", "b", "{">>,      \* an @Test method b
      <<"T", "n", "q", "{">>,      \* an @Test method with the back-ticked name a
      <<"B", "n", "b", "{">>,      \* an @Before method b
      <<"T", "n", "v", "{">>,      \* an @Test Java method a
      <<"P", "n">>,                \* an @ParameterizedTest annotation line
      <<"{">>,                     \* a nested block opens
      <<"}">>,                     \* a closing brace, text follows on its line
      <<"}", "n">> }               \* a closing brace that ends its line

ChunkSeqs == UNION { [1..k -> Chunks] : k \in 0..MaxChunks }

Keeps == { {}, {<<"a">>} }

Exts == {".kt", ".java"}

\* ------------------------------------------------------------------ parse_fqns, fqcn_to_candidate_paths
\* A line of the FQN list is the sequence of its dot-separated parts: <<>> is a
\* blank line, a line whose first part is "#" is a comment.

\* str.rsplit(".", 1): one part when the text has no dot, else two.
RSplit1(parts) ==
    IF Len(parts) <= 1 THEN <<parts>>
    ELSE <<SubSeq(parts, 1, Len(parts) - 1), <<parts[Len(parts)]>>>>

\* not raw_line.strip() or raw_line.lstrip().startswith("#")
Ignored(line) == line = <<>> \/ Head(line) = "#"

IndexOfClass(wanted, cls) ==
    IF \E k \in DOMAIN wanted : wanted[k].cls = cls
    THEN CHOOSE k \in DOMAIN wanted : wanted[k].cls = cls
    ELSE 0

\* wanted[cls].add(meth)
AddWanted(wanted, cls, meth) ==
    IF IndexOfClass(wanted, cls) = 0
    THEN Append(wanted, [cls |-> cls, methods |-> {meth}])
    ELSE [wanted EXCEPT ![IndexOfClass(wanted, cls)].methods = @ \cup {meth}]

\* parse_fqns over the lines not yet read; ok = FALSE when the two-name unpack
\* of rsplit raises ValueError.
RECURSIVE ParseFqns(_, _)
ParseFqns(lines, wanted) ==
    IF lines = <<>> THEN [ok |-> TRUE, wanted |-> wanted]
    ELSE IF Ignored(Head(lines)) THEN ParseFqns(Tail(lines), wanted)
    ELSE IF Len(RSplit1(Head(lines))) # 2 THEN [ok |-> FALSE, wanted |-> wanted]
    ELSE ParseFqns(Tail(lines),
                   AddWanted(wanted, RSplit1(Head(lines))[1],
                             StripSpace(RSplit1(Head(lines))[2])))

\* A path under the test root: its directories, base name and suffix.
PathOf(pkg, cls, suffix) == [dir |-> pkg, base |-> cls, ext |-> suffix]

\* fqcn_to_candidate_paths; ok = FALSE when the two-name unpack of rsplit raises
\* ValueError (a class name without a dot).
CandidatePaths(fqcn) ==
    IF Len(RSplit1(fqcn)) # 2 THEN [ok |-> FALSE, paths |-> <<>>]
    ELSE [ok |-> TRUE,
          paths |-> << PathOf(RSplit1(fqcn)[1], RSplit1(fqcn)[2][1], ".kt"),
                       PathOf(RSplit1(fqcn)[1], RSplit1(fqcn)[2][1], ".java") >>]

\* The candidates probed for a class, in order, up to the first that exists.
Probed(paths, existing) ==
    IF paths[1] \in existing THEN <<paths[1]>> ELSE paths

\* per_file[rel_path].update(methods)
UpdatePerFile(pf, path, methods) ==
    IF path \in DOMAIN pf THEN [pf EXCEPT ![path] = @ \cup methods]
    ELSE pf @@ (path :> methods)

\* The order of str on the paths: the code points of the parts that differ.
Rank(part) ==
    CASE part = ".java" -> 1
      [] part = ".kt" -> 2
      [] part = "A" -> 3
      [] part = "B" -> 4
      [] part = "C" -> 5
      [] part = "p" -> 6
      [] OTHER -> 7

PathKey(path) == path.dir \o <<path.base, path.ext>>

RECURSIVE LexLess(_, _)
LexLess(x, y) ==
    IF x = <<>> THEN y # <<>>
    ELSE IF y = <<>> THEN FALSE
    ELSE IF Rank(Head(x)) # Rank(Head(y)) THEN Rank(Head(x)) < Rank(Head(y))
    ELSE LexLess(Tail(x), Tail(y))

\* sorted(per_file.items()): the paths in ascending order.
RECURSIVE SortedPaths(_)
SortedPaths(ps) ==
    IF ps = {} THEN <<>>
    ELSE LET least == CHOOSE x \in ps :
                          \A y \in ps \ {x} : LexLess(PathKey(x), PathKey(y))
         IN  <<least>> \o SortedPaths(ps \ {least})

\* ------------------------------------------------------------------ the repository at the old ref
FqnLines ==
    { <<>>,                         \* a blank line
      <<"#", "p", "A", "a">>,       \* a comment
      <<"p", "A", "a">>,
      <<"p", "A", "b">>,
      <<"p", "B", "a">>,
      <<"C", "a">>,                 \* a class of a file without a package statement
      <<"a">> }                     \* a line without a dot

FqnTexts == UNION { [1..k -> FqnLines] : k \in 0..MaxLines }

OldTrees ==
    SUBSET { PathOf(<<"p">>, "A", ".kt"), PathOf(<<"p">>, "A", ".java"),
             PathOf(<<"p">>, "B", ".java") }

\* git show old:path for the test sources.
OldContent(path) ==
    IF path.ext = ".kt"
    THEN <<"T", "n", "a", "{", "}", "n", "T", "n", "b", "{", "}", "n">>
    ELSE <<"T", "n", "v", "{", "}", "n">>

\* ------------------------------------------------------------------ strip_unwanted_tests, step by step
StripInit ==
    /\ \E cs \in ChunkSeqs : src = Flatten(cs)
    /\ keep \in Keeps
    /\ ext \in Exts
    /\ pos = 0
    /\ out = <<>>
    /\ last = 0
    /\ spc = "loop"
    /\ pass = 1
    /\ orig = src
    /\ emitted = <<>>
    /\ spans = <<>>
    /\ firstSpans = <<>>

\* One iteration of the for loop that ends in a continue: the match is no test
\* or it is a wanted test.
StripContinue ==
    /\ spc = "loop"
    /\ \E m \in {NextMatch(src, pos, Pattern(ext))} :
           /\ m.start >= 0
           /\ ~Unwanted(m, keep)
           /\ pos' = m.end
    /\ UNCHANGED <<src, keep, ext, out, last, spc, pass, orig, emitted, spans, firstSpans>>
    /\ UNCHANGED <<syncVars, runnerVars, tallyVars, scanVars>>

\* One iteration of the for loop that deletes the match.
StripDelete ==
    /\ spc = "loop"
    /\ \E m \in {NextMatch(src, pos, Pattern(ext))} :
           /\ m.start >= 0
           /\ Unwanted(m, keep)
           /\ out' = out \o EmitBefore(src, last, m)
           /\ emitted' = emitted \o SliceOffsets(src, last, m.start)
           /\ last' = BraceEnd(src, m)
           /\ spans' = Append(spans, <<m.start, last'>>)
           /\ pos' = m.end
    /\ UNCHANGED <<src, keep, ext, spc, pass, orig, firstSpans>>
    /\ UNCHANGED <<syncVars, runnerVars, tallyVars, scanVars>>

\* The iterator is exhausted: the final append and the return.
StripReturn ==
    /\ spc = "loop"
    /\ NextMatch(src, pos, Pattern(ext)).start < 0
    /\ out' = out \o Slice(src, last, Len(src))
    /\ emitted' = emitted \o SliceOffsets(src, last, Len(src))
    /\ spc' = "done"
    /\ UNCHANGED <<src, keep, ext, pos, last, pass, orig, spans, firstSpans>>
    /\ UNCHANGED <<syncVars, runnerVars, tallyVars, scanVars>>

\* The transform is run again on its own output with the same wanted set.
StripAgain ==
    /\ spc = "done"
    /\ pass = 1
    /\ src' = out
    /\ pos' = 0
    /\ out' = <<>>
    /\ last' = 0
    /\ spc' = "loop"
    /\ pass' = 2
    /\ emitted' = <<>>
    /\ firstSpans' = spans
    /\ spans' = <<>>
    /\ UNCHANGED <<keep, ext, orig>>
    /\ UNCHANGED <<syncVars, runnerVars, tallyVars, scanVars>>

NextStrip == StripContinue \/ StripDelete \/ StripReturn \/ StripAgain

InitStrip == StripInit /\ SyncIdle /\ RunnerIdle /\ TallyIdle /\ ScanIdle

SpecStrip == InitStrip /\ [][NextStrip]_vars

\* ------------------------------------------------------------------ main and sync_tests
\* A git operation or a file write: what, at which ref, on which path.
Event(op, ref, path) == [op |-> op, ref |-> ref, path |-> path]

NoPath == PathOf(<<>>, "", "")

SyncInit ==
    /\ pc = "main"
    /\ exitCode = -1
    /\ exitHow = ""
    /\ gitDir \in BOOLEAN
    /\ treeStatus \in {"clean", "dirty", "error"}
    /\ fqnsText \in FqnTexts
    /\ oldFiles \in OldTrees
    /\ wantedByClass = <<>>
    /\ idx = 0
    /\ perFile = <<>>
    /\ warnings = <<>>
    /\ head = "start"
    /\ written = <<>>
    /\ staged = {}
    /\ nDone = 0
    /\ failedOp = ""
    /\ message = ""
    /\ log = <<>>

\* The process ends: sys.exit(text) and an uncaught exception exit with 1, a
\* return from main with 0.
Exit(how, op) ==
    /\ pc' = "exit"
    /\ exitHow' = how
    /\ exitCode' = IF how = "return" THEN 0 ELSE 1
    /\ failedOp' = op

\* main: the target must hold a .git directory.
MainCheckRepo ==
    /\ pc = "main"
    /\ \/ /\ ~gitDir
          /\ Exit("sys.exit", "not a repository")
       \/ /\ gitDir
          /\ pc' = "status"
          /\ UNCHANGED <<exitCode, exitHow, failedOp>>
    /\ UNCHANGED <<gitDir, treeStatus, fqnsText, oldFiles, wantedByClass, idx, perFile,
                   warnings, head, written, staged, nDone, message, log>>
    /\ UNCHANGED <<stripVars, runnerVars, tallyVars, scanVars>>

\* Mutant: the dirty check is missing.
MainStatus_IgnoresDirty ==
    /\ pc = "status"
    /\ \/ /\ treeStatus = "error"
          /\ Exit("traceback", "status")
       \/ /\ treeStatus \in {"clean", "dirty"}
          /\ pc' = "parse"
          /\ UNCHANGED <<exitCode, exitHow, failedOp>>
    /\ UNCHANGED <<gitDir, treeStatus, fqnsText, oldFiles, wantedByClass, idx, perFile,
                   warnings, head, written, staged, nDone, message, log>>
    /\ UNCHANGED <<stripVars, runnerVars, tallyVars, scanVars>>

\* main: bail if the working tree is dirty.  run_git raises RuntimeError when
\* git status fails, outside the try block.
MainStatus ==
    /\ pc = "status"
    /\ \/ /\ treeStatus = "error"
          /\ Exit("traceback", "status")
       \/ /\ treeStatus = "dirty"
          /\ Exit("sys.exit", "dirty")
       \/ /\ treeStatus = "clean"
          /\ pc' = "parse"
          /\ UNCHANGED <<exitCode, exitHow, failedOp>>
    /\ UNCHANGED <<gitDir, treeStatus, fqnsText, oldFiles, wantedByClass, idx, perFile,
                   warnings, head, written, staged, nDone, message, log>>
    /\ UNCHANGED <<stripVars, runnerVars, tallyVars, scanVars>>

\* sync_tests step 1: read the FQN list at the old ref and parse it.
ParseWhitelist ==
    /\ pc = "parse"
    /\ log' = Append(log, Event("show fqns", "old", NoPath))
    /\ \/ /\ Exit("sys.exit", "show fqns")          \* git show failed: RuntimeError
          /\ UNCHANGED wantedByClass
       \/ /\ ~ParseFqns(fqnsText, <<>>).ok          \* ValueError, not caught
          /\ Exit("traceback", "parse")
          /\ UNCHANGED wantedByClass
       \/ /\ ParseFqns(fqnsText, <<>>).ok
          /\ wantedByClass' = ParseFqns(fqnsText, <<>>).wanted
          /\ pc' = "resolve"
          /\ UNCHANGED <<exitCode, exitHow, failedOp>>
    /\ UNCHANGED <<gitDir, treeStatus, fqnsText, oldFiles, idx, perFile, warnings,
                   head, written, staged, nDone, message>>
    /\ UNCHANGED <<stripVars, runnerVars, tallyVars, scanVars>>

\* sync_tests step 2, one class: probe the candidates at the old ref in order.
ResolveClass ==
    /\ pc = "resolve"
    /\ idx < Len(wantedByClass)
    /\ \E w \in {wantedByClass[idx + 1]} : \E c \in {CandidatePaths(w.cls)} :
        \/ /\ ~c.ok                                  \* ValueError, not caught
           /\ Exit("traceback", "candidates")
           /\ UNCHANGED <<idx, perFile, warnings, log>>
        \/ /\ c.ok
           /\ \E k \in 1..2 : c.paths[k] \in oldFiles
           /\ LET found == Probed(c.paths, oldFiles)[Len(Probed(c.paths, oldFiles))]
              IN  perFile' = UpdatePerFile(perFile, found, w.methods)
           /\ log' = log \o [k \in 1..Len(Probed(c.paths, oldFiles)) |->
                                Event("probe", "old", Probed(c.paths, oldFiles)[k])]
           /\ idx' = idx + 1
           /\ UNCHANGED <<pc, exitCode, exitHow, failedOp, warnings>>
        \/ /\ c.ok
           /\ \A k \in 1..2 : c.paths[k] \notin oldFiles
           /\ warnings' = Append(warnings, w.cls)
           /\ log' = log \o [k \in 1..2 |-> Event("probe", "old", c.paths[k])]
           /\ idx' = idx + 1
           /\ UNCHANGED <<pc, exitCode, exitHow, failedOp, perFile>>
    /\ UNCHANGED <<gitDir, treeStatus, fqnsText, oldFiles, wantedByClass, head, written,
                   staged, nDone, message>>
    /\ UNCHANGED <<stripVars, runnerVars, tallyVars, scanVars>>

\* sync_tests step 3: nothing to do, or switch to the new ref.
Checkout ==
    /\ pc = "resolve"
    /\ idx = Len(wantedByClass)
    /\ \/ /\ DOMAIN perFile = {}
          /\ message' = "nothing to do"
          /\ Exit("return", "")
          /\ UNCHANGED <<head, log>>
       \/ /\ DOMAIN perFile # {}
          /\ log' = Append(log, Event("checkout", "new", NoPath))
          /\ \/ /\ head' = "new"
                /\ pc' = "rewrite"
                /\ UNCHANGED <<exitCode, exitHow, failedOp>>
             \/ /\ Exit("sys.exit", "checkout")      \* git checkout failed
                /\ UNCHANGED head
          /\ UNCHANGED message
    /\ UNCHANGED <<gitDir, treeStatus, fqnsText, oldFiles, wantedByClass, idx, perFile,
                   warnings, written, staged, nDone>>
    /\ UNCHANGED <<stripVars, runnerVars, tallyVars, scanVars>>

\* Mutant: the path is staged before the pruned content is written.
RewriteFile_StagesFirst ==
    /\ pc = "rewrite"
    /\ nDone < Len(SortedPaths(DOMAIN perFile))
    /\ \E path \in {SortedPaths(DOMAIN perFile)[nDone + 1]} :
        /\ log' = log \o <<Event("show", "old", path), Event("add", "tree", path),
                            Event("write", "tree", path)>>
        /\ written' = [q \in DOMAIN written \cup {path} |->
                         IF q = path
                         THEN StripUnwantedTests(OldContent(path), perFile[path], path.ext)
                         ELSE written[q]]
        /\ staged' = staged \cup {path}
        /\ nDone' = nDone + 1
    /\ UNCHANGED <<pc, exitCode, exitHow, failedOp>>
    /\ UNCHANGED <<gitDir, treeStatus, fqnsText, oldFiles, wantedByClass, idx, perFile,
                   warnings, head, message>>
    /\ UNCHANGED <<stripVars, runnerVars, tallyVars, scanVars>>

\* Mutant: a failed git add undoes what the run wrote and staged.
RewriteFile_RollsBack ==
    /\ pc = "rewrite"
    /\ nDone < Len(SortedPaths(DOMAIN perFile))
    /\ \E path \in {SortedPaths(DOMAIN perFile)[nDone + 1]} :
        /\ log' = log \o <<Event("show", "old", path), Event("write", "tree", path),
                            Event("add", "tree", path)>>
        /\ \/ /\ Exit("sys.exit", "add")
              /\ written' = <<>>
              /\ staged' = {}
              /\ UNCHANGED nDone
           \/ /\ written' = [q \in DOMAIN written \cup {path} |->
                               IF q = path
                               THEN StripUnwantedTests(OldContent(path), perFile[path],
                                                       path.ext)
                               ELSE written[q]]
              /\ staged' = staged \cup {path}
              /\ nDone' = nDone + 1
              /\ UNCHANGED <<pc, exitCode, exitHow, failedOp>>
    /\ UNCHANGED <<gitDir, treeStatus, fqnsText, oldFiles, wantedByClass, idx, perFile,
                   warnings, head, message>>
    /\ UNCHANGED <<stripVars, runnerVars, tallyVars, scanVars>>

\* sync_tests step 4, one path of sorted(per_file.items()): read it at the old
\* ref, prune it, write it, stage it.
RewriteFile ==
    /\ pc = "rewrite"
    /\ nDone < Len(SortedPaths(DOMAIN perFile))
    /\ \E path \in {SortedPaths(DOMAIN perFile)[nDone + 1]} :
        \/ /\ log' = Append(log, Event("show", "old", path))       \* git show failed
           /\ Exit("sys.exit", "show")
           /\ UNCHANGED <<written, staged, nDone>>
        \/ /\ log' = log \o <<Event("show", "old", path), Event("write", "tree", path)>>
           /\ Exit("traceback", "write")                     \* OSError, not caught
           /\ UNCHANGED <<written, staged, nDone>>
        \/ /\ log' = log \o <<Event("show", "old", path), Event("write", "tree", path),
                              Event("add", "tree", path)>>
           /\ written' = [q \in DOMAIN written \cup {path} |->
                            IF q = path
                            THEN StripUnwantedTests(OldContent(path), perFile[path], path.ext)
                            ELSE written[q]]
           /\ \/ /\ Exit("sys.exit", "add")                  \* git add failed
                 /\ UNCHANGED <<staged, nDone>>
              \/ /\ staged' = staged \cup {path}
                 /\ nDone' = nDone + 1
                 /\ UNCHANGED <<pc, exitCode, exitHow, failedOp>>
    /\ UNCHANGED <<gitDir, treeStatus, fqnsText, oldFiles, wantedByClass, idx, perFile,
                   warnings, head, message>>
    /\ UNCHANGED <<stripVars, runnerVars, tallyVars, scanVars>>

\* sync_tests: every path is done; report and return.
Done ==
    /\ pc = "rewrite"
    /\ nDone = Len(SortedPaths(DOMAIN perFile))
    /\ message' = "done"
    /\ Exit("return", "")
    /\ UNCHANGED <<gitDir, treeStatus, fqnsText, oldFiles, wantedByClass, idx, perFile,
                   warnings, head, written, staged, nDone, log>>
    /\ UNCHANGED <<stripVars, runnerVars, tallyVars, scanVars>>

Init == SyncInit /\ StripIdle /\ RunnerIdle /\ TallyIdle /\ ScanIdle

Next == MainCheckRepo \/ MainStatus \/ ParseWhitelist \/ ResolveClass \/ Checkout
            \/ RewriteFile \/ Done

Spec == Init /\ [][Next]_vars

\* ------------------------------------------------------------------ claims on the pruning
Range(f) == { f[k] : k \in DOMAIN f }

\* Every match pat.finditer yields on s from offset p on.
RECURSIVE MatchesFrom(_, _, _)
MatchesFrom(s, p, decls) ==
    LET m == NextMatch(s, p, decls)
    IN  IF m.start < 0 THEN {} ELSE {m} \cup MatchesFrom(s, m.end, decls)

\* The offsets of the method of match m: its annotation block through the brace
\* that closes it.
MethodSpan(s, m) == m.start .. (BraceEnd(s, m) - 1)

UnwantedSpans(s, ks, e) ==
    { MethodSpan(s, m) : m \in { x \in MatchesFrom(s, 0, Pattern(e)) : Unwanted(x, ks) } }

FirstRunDone == spc = "done" /\ pass = 1

SecondRunDone == spc = "done" /\ pass = 2

\* C3: when the pruning returns, no piece of an unwanted test method (from the
\* start of its annotation block through its closing brace) is in the output,
\* and every wanted test method and every method that is no test is in the
\* output in full (read for the methods that do not overlap a removed method).
C3_PruneKeepsWantedRemovesUnwanted ==
    FirstRunDone =>
        \A m \in MatchesFrom(src, 0, Pattern(ext)) :
            IF Unwanted(m, keep)
            THEN MethodSpan(src, m) \cap Range(emitted) = {}
            ELSE (\A u \in UnwantedSpans(src, keep, ext) : u \cap MethodSpan(src, m) = {})
                     => MethodSpan(src, m) \subseteq Range(emitted)

\* The closing brace of every span the first run deleted ends its line (or the
\* span ran to the end of the text).
CleanEnds ==
    \A k \in DOMAIN firstSpans :
        firstSpans[k][2] >= Len(orig) \/ At(orig, firstSpans[k][2]) = "n"

Excised(s, sps) ==
    SelectSeq([k \in 1..Len(s) |-> k - 1],
              LAMBDA i : \A j \in DOMAIN sps : ~(sps[j][1] <= i /\ i < sps[j][2]))

\* C10: the spans deleted are those of the unwanted test methods, each from the
\* start of the annotation block to just after the brace that brings the depth
\* back to 0, and the output is the text with exactly these spans cut out: every
\* piece outside them is emitted once and in order, and no piece inside them.
C10_OutputIsSourceMinusSpans ==
    FirstRunDone =>
        /\ { MethodSpan(src, m) :
               m \in { x \in MatchesFrom(src, 0, Pattern(ext)) : Unwanted(x, keep) } }
             = { spans[k][1] .. (spans[k][2] - 1) : k \in DOMAIN spans }
        /\ emitted = Excised(src, spans)
        /\ out = [k \in DOMAIN emitted |-> At(src, emitted[k])]

\* C12: across the successive matches the copy cursor never decreases and every
\* deleted span starts at or after the end of the span deleted before it, so
\* that the deleted spans are disjoint and no piece inside a deleted span is
\* emitted to the output.
C12_CursorNeverDecreases ==
    /\ \A k \in DOMAIN spans :
           k > 1 => /\ spans[k][2] >= spans[k - 1][2]
                    /\ spans[k][1] >= spans[k - 1][2]
    /\ spans # <<>> => last = spans[Len(spans)][2]
    /\ \A k \in DOMAIN spans :
           \A e \in DOMAIN emitted :
               ~(spans[k][1] <= emitted[e] /\ emitted[e] < spans[k][2])

\* ------------------------------------------------------------------ claims on the syncer
Ops(op) == { k \in DOMAIN log : log[k].op = op }

PhaseOf(op) ==
    CASE op = "show fqns" -> 1
      [] op = "probe" -> 2
      [] op = "checkout" -> 3
      [] op \in {"show", "write", "add"} -> 4

\* C1: when the target holds no .git directory, git status fails, or git status
\* reports a pending change, main never gets past its checks, exits non-zero,
\* and nothing is read, checked out, written or staged.
C1_PreconditionStopsRun ==
    (~gitDir \/ treeStatus \in {"dirty", "error"}) =>
        /\ pc \in {"main", "status", "exit"}
        /\ pc = "exit" => exitCode # 0
        /\ log = <<>>
        /\ wantedByClass = <<>>
        /\ head = "start"
        /\ DOMAIN written = {}
        /\ staged = {}

C1_Witness ==
    pc = "exit" /\ gitDir /\ treeStatus = "dirty" /\ exitCode = 1 /\ log = <<>>
        /\ fqnsText # <<>> /\ oldFiles # {}

\* C2: the operations of a run are in phase order (read the list, probe, check
\* out, rewrite and stage) with no phase entered again: the list is read once
\* and every probe is at the old ref and before the checkout, there is at most
\* one checkout and it is of the new ref and before every write and staging, a
\* path is written before it is staged, and done is reported only when every
\* resolved path was written and staged.
C2_PhaseOrder ==
    /\ \A i, j \in DOMAIN log : i < j => PhaseOf(log[i].op) <= PhaseOf(log[j].op)
    /\ Cardinality(Ops("show fqns")) <= 1
    /\ Cardinality(Ops("checkout")) <= 1
    /\ \A k \in Ops("show fqns") \cup Ops("probe") : log[k].ref = "old"
    /\ \A k \in Ops("checkout") : log[k].ref = "new"
    /\ \A k \in Ops("write") \cup Ops("add") : \E c \in Ops("checkout") : c < k
    /\ \A k \in Ops("add") : \E w \in Ops("write") : w < k /\ log[w].path = log[k].path
    /\ (Ops("checkout") # {} \/ Ops("probe") # {}) => Ops("show fqns") # {}
    /\ message = "done" =>
          \A path \in DOMAIN perFile :
              /\ \E w \in Ops("write") : log[w].path = path
              /\ \E a \in Ops("add") : log[a].path = path
              /\ path \in DOMAIN written
              /\ path \in staged

C2_Witness ==
    message = "done" /\ Cardinality(DOMAIN perFile) = 2 /\ head = "new"
        /\ Cardinality(Ops("add")) = 2 /\ Cardinality(Ops("probe")) >= 3

\* The paths a class name stands for under the test root.
IntendedPath(cls, suffix) ==
    PathOf(SubSeq(cls, 1, Len(cls) - 1), cls[Len(cls)], suffix)

\* The run ended after the FQN list was read and parsed.
EndedAfterParse ==
    pc = "exit" /\ failedOp \in {"", "candidates", "checkout", "show", "write", "add"}

\* C5: for every class of the whitelist, once the run has ended: if its .kt
\* file exists at the old ref that path holds its wanted methods and the .java
\* path was not probed; else if its .java file exists that path holds them and
\* was probed after the .kt path; else the class was warned about exactly once
\* and is in no entry -- a missing class does not keep the others from being
\* resolved.
C5_ResolvePaths ==
    EndedAfterParse =>
        \A k \in DOMAIN wantedByClass :
            LET w == wantedByClass[k]
                kt == IntendedPath(w.cls, ".kt")
                java == IntendedPath(w.cls, ".java")
                probesOf(path) == { i \in Ops("probe") : log[i].path = path }
                warned == { i \in DOMAIN warnings : warnings[i] = w.cls }
            IN  IF kt \in oldFiles
                THEN /\ kt \in DOMAIN perFile /\ w.methods \subseteq perFile[kt]
                     /\ java \notin DOMAIN perFile
                     /\ probesOf(java) = {}
                     /\ warned = {}
                ELSE IF java \in oldFiles
                THEN /\ java \in DOMAIN perFile /\ w.methods \subseteq perFile[java]
                     /\ kt \notin DOMAIN perFile
                     /\ \A j \in probesOf(java) : \E i \in probesOf(kt) : i < j
                     /\ warned = {}
                ELSE /\ Cardinality(warned) = 1
                     /\ kt \notin DOMAIN perFile /\ java \notin DOMAIN perFile

\* C6: when the list was parsed and none of its classes has a file at the old
\* ref, the run ends by returning normally after "nothing to do", with no
\* checkout, no write and no staging; and a checkout happens only when a path
\* resolved.
C6_NothingToDo ==
    /\ ( /\ EndedAfterParse
         /\ \A k \in DOMAIN wantedByClass :
               /\ IntendedPath(wantedByClass[k].cls, ".kt") \notin oldFiles
               /\ IntendedPath(wantedByClass[k].cls, ".java") \notin oldFiles )
         => /\ message = "nothing to do"
            /\ exitHow = "return" /\ exitCode = 0
            /\ Ops("checkout") = {} /\ DOMAIN written = {} /\ staged = {}
    /\ Ops("checkout") # {} => DOMAIN perFile # {}

\* The first n paths of sorted(per_file).
FirstPaths(n) == { SortedPaths(DOMAIN perFile)[i] : i \in 1..n }

\* C7: a git failure on the k-th path (k = nDone + 1) ends the run non-zero on
\* the new ref with exactly the first k-1 paths written and staged, with their
\* pruned content, nothing of a later path written or staged, and the failed
\* operation tried once; a failure before the checkout ends the run non-zero
\* with the working tree and the index untouched.
C7_NoRetryNoRollback ==
    /\ (pc = "exit" /\ failedOp \in {"show", "add"}) =>
          /\ exitCode # 0
          /\ head = "new"
          /\ staged = FirstPaths(nDone)
          /\ { path \in DOMAIN written : path \in staged } = FirstPaths(nDone)
          /\ \A path \in FirstPaths(nDone) :
                written[path] =
                    StripUnwantedTests(OldContent(path), perFile[path], path.ext)
          /\ \A i \in (nDone + 2)..Len(SortedPaths(DOMAIN perFile)) :
                /\ SortedPaths(DOMAIN perFile)[i] \notin DOMAIN written
                /\ SortedPaths(DOMAIN perFile)[i] \notin staged
                /\ \A k \in DOMAIN log : log[k].path # SortedPaths(DOMAIN perFile)[i]
                      \/ log[k].op = "probe"
          /\ Cardinality({ k \in Ops(failedOp) :
                log[k].path = SortedPaths(DOMAIN perFile)[nDone + 1] }) = 1
    /\ (pc = "exit" /\ failedOp \in {"show fqns", "parse", "candidates"}) =>
          /\ exitCode # 0
          /\ head = "start"
          /\ DOMAIN written = {}
          /\ staged = {}
          /\ Ops("checkout") = {}

C7_Witness ==
    pc = "exit" /\ failedOp = "add" /\ nDone = 1
        /\ Cardinality(DOMAIN perFile) = 2 /\ Cardinality(DOMAIN written) = 2
        /\ Cardinality(staged) = 1

\* ------------------------------------------------------------------ run_tests.py
\* A line of ui_test_fqns.txt is a sequence of pieces: " " is white space, "#"
\* the comment sign, "x" and "y" test identifiers.
FileLineSet ==
    { <<>>, <<" ">>, <<"#", "x">>, <<" ", "#", "x">>, <<"x">>, <<" ", "y", " ">> }

FileTexts == UNION { [1..k -> FileLineSet] : k \in 0..MaxFileLines }

\* Mutant: comment lines are not filtered out.
IsTestLine_KeepsComments(line) == StripSpace(line) # <<>>

\* line.strip() and not line.strip().startswith('#')
IsTestLine(line) == StripSpace(line) # <<>> /\ Head(StripSpace(line)) # "#"

\* [line.strip() for line in f if ...]
RECURSIVE ReadTestClasses(_)
ReadTestClasses(lines) ==
    IF lines = <<>> THEN <<>>
    ELSE IF IsTestLine(Head(lines))
    THEN <<StripSpace(Head(lines))>> \o ReadTestClasses(Tail(lines))
    ELSE ReadTestClasses(Tail(lines))

\* gradle_command_base followed by --tests <name> for every name
RECURSIVE TestArgs(_)
TestArgs(classes) ==
    IF classes = <<>> THEN <<>>
    ELSE <<"--tests", Head(classes)>> \o TestArgs(Tail(classes))

GradleCommandBase == <<"gradlew", "testStandardDebugUnitTest", "--rerun-tasks">>

RunnerInit ==
    /\ rpc = "exists"
    /\ rExit = -1
    /\ rMessage = ""
    /\ \/ fileState \in {"absent", "unreadable"} /\ fileLines = <<>>
       \/ fileState = "ok" /\ fileLines \in FileTexts
    /\ testClasses = <<>>
    /\ gradleCommand = <<>>
    /\ gradleRuns = 0

RunnerExit(code, text) ==
    /\ rpc' = "exit"
    /\ rExit' = code
    /\ rMessage' = text

\* if not os.path.exists(test_file_path): exit(1)
RunnerCheckExists ==
    /\ rpc = "exists"
    /\ \/ /\ fileState = "absent"
          /\ RunnerExit(1, "Error: Test file not found")
       \/ /\ fileState # "absent"
          /\ rpc' = "read"
          /\ UNCHANGED <<rExit, rMessage>>
    /\ UNCHANGED <<fileState, fileLines, testClasses, gradleCommand, gradleRuns>>
    /\ UNCHANGED <<stripVars, syncVars, tallyVars, scanVars>>

\* the try block that reads the file
RunnerRead ==
    /\ rpc = "read"
    /\ \/ /\ fileState = "unreadable"
          /\ RunnerExit(1, "Error reading file")
          /\ UNCHANGED testClasses
       \/ /\ fileState = "ok"
          /\ testClasses' = ReadTestClasses(fileLines)
          /\ rpc' = "check"
          /\ UNCHANGED <<rExit, rMessage>>
    /\ UNCHANGED <<fileState, fileLines, gradleCommand, gradleRuns>>
    /\ UNCHANGED <<stripVars, syncVars, tallyVars, scanVars>>

\* if not test_classes: exit(0); else build the command
RunnerCheckEmpty ==
    /\ rpc = "check"
    /\ \/ /\ testClasses = <<>>
          /\ RunnerExit(0, "No valid test classes found")
          /\ UNCHANGED gradleCommand
       \/ /\ testClasses # <<>>
          /\ gradleCommand' = GradleCommandBase \o TestArgs(testClasses)
          /\ rpc' = "run"
          /\ rMessage' = "Executing command:"
          /\ UNCHANGED rExit
    /\ UNCHANGED <<fileState, fileLines, testClasses, gradleRuns>>
    /\ UNCHANGED <<stripVars, syncVars, tallyVars, scanVars>>

\* subprocess.run(gradle_command_full, check=True) and the except clauses
RunnerInvoke ==
    /\ rpc = "run"
    /\ gradleRuns' = gradleRuns + 1
    /\ \/ RunnerExit(0, "Gradle task completed successfully.")
       \/ \E code \in {1, 2} : RunnerExit(code, "Gradle task failed")
       \/ RunnerExit(1, "command not found")
    /\ UNCHANGED <<fileState, fileLines, testClasses, gradleCommand>>
    /\ UNCHANGED <<stripVars, syncVars, tallyVars, scanVars>>

InitRunner == RunnerInit /\ StripIdle /\ SyncIdle /\ TallyIdle /\ ScanIdle

NextRunner == RunnerCheckExists \/ RunnerRead \/ RunnerCheckEmpty \/ RunnerInvoke

SpecRunner == InitRunner /\ [][NextRunner]_vars

\* ------------------------------------------------------------------ claims on the runner
\* The file yields no identifier: every line is blank or a comment.
NoIdentifiers ==
    \A k \in DOMAIN fileLines :
        \A i \in DOMAIN fileLines[k] :
            fileLines[k][i] # " " => \E j \in 1..i : fileLines[k][j] = "#"

\* C8 as stated: absent, unreadable or without identifiers, the runner ends
\* with a non-zero status and a message and never invokes the build tool.
C8_FailsFastNonZero ==
    (rpc = "exit" /\ (fileState \in {"absent", "unreadable"} \/ NoIdentifiers)) =>
        rExit # 0 /\ rMessage # "" /\ gradleRuns = 0

\* C8 as amended: absent or unreadable, the runner ends with status 1 and a
\* message; without identifiers it ends with status 0 and a message; in all
\* three cases the build tool is never invoked.
C8_FailsFast ==
    (fileState \in {"absent", "unreadable"} \/ NoIdentifiers) =>
        /\ gradleRuns = 0
        /\ gradleCommand = <<>>
        /\ rpc \in {"exists", "read", "check", "exit"}
        /\ rpc = "exit" =>
              /\ rMessage # ""
              /\ rExit = IF fileState = "ok" THEN 0 ELSE 1

C8_Witness ==
    rpc = "exit" /\ fileState = "ok" /\ NoIdentifiers /\ Len(fileLines) = 3
        /\ (\E k \in DOMAIN fileLines : fileLines[k] = <<" ", "#", "x">>)
        /\ rExit = 0 /\ gradleRuns = 0

\* ------------------------------------------------------------------ tally
\* A numstat line is a sequence of pieces: "t" is a tab, "0", "1", "2" are
\* counts, "-" the count of a binary file, "a" a file name stem, ".kt" and
\* ".java" suffixes.

\* line.split("\t"): the runs of pieces between the tabs.
RECURSIVE SplitTabs(_, _)
SplitTabs(line, field) ==
    IF line = <<>> THEN <<field>>
    ELSE IF Head(line) = "t" THEN <<field>> \o SplitTabs(Tail(line), <<>>)
    ELSE SplitTabs(Tail(line), Append(field, Head(line)))

Split(line) == SplitTabs(line, <<>>)

\* int(text) for the counts of the model
IntOf(field) ==
    CASE field = <<"0">> -> 0
      [] field = <<"1">> -> 1
      [] field = <<"2">> -> 2

\* filename.endswith(suffix)
EndsWith(name, suffix) ==
    /\ Len(suffix) <= Len(name)
    /\ SubSeq(name, Len(name) - Len(suffix) + 1, Len(name)) = suffix

\* exts and not any(filename.endswith(ext) for ext in exts)
FilteredOut(name, exts) ==
    exts # <<>> /\ ~\E k \in DOMAIN exts : EndsWith(name, exts[k])

NumstatLines ==
    { <<"1", "t", "2", "t", "a", ".kt">>,
      <<"2", "t", "0", "t", "a", ".java">>,
      <<"1", "t", "1", "t", "a", ".kt", ".java">>,
      <<"-", "t", "-", "t", "a", ".kt">>,           \* a binary file
      <<"1", "t", "-", "t", "a", ".kt">>,
      <<>>,                                          \* an empty line: one field
      <<"1", "t", "2">>,                            \* two fields
      <<"1", "t", "2", "t", "a", "t", ".kt">> }     \* a tab in the path: four fields

NumstatOutputs == UNION { [1..k -> NumstatLines] : k \in 0..MaxRecords }

ExtLists == { <<>>, <<<<".kt">>>>, <<<<".kt">>, <<".java">>>> }

TallyInit ==
    /\ tpc = "loop"
    /\ tLines \in NumstatOutputs
    /\ tExts \in ExtLists
    /\ tIdx = 0
    /\ added = 0
    /\ deleted = 0

\* One iteration of the for loop.
TallyLine ==
    /\ tpc = "loop"
    /\ tIdx < Len(tLines)
    /\ \E parts \in {Split(tLines[tIdx + 1])} :
        \/ /\ Len(parts) < 3                       \* skip unexpected lines
           /\ tIdx' = tIdx + 1
           /\ UNCHANGED <<tpc, added, deleted>>
        \/ /\ Len(parts) > 3                       \* add, delete, filename = parts
           /\ tpc' = "raised"                      \* ValueError: too many values
           /\ UNCHANGED <<tIdx, added, deleted>>
        \/ /\ Len(parts) = 3
           /\ parts[1] = <<"-">> \/ parts[2] = <<"-">>     \* binary file
           /\ tIdx' = tIdx + 1
           /\ UNCHANGED <<tpc, added, deleted>>
        \/ /\ Len(parts) = 3
           /\ parts[1] # <<"-">> /\ parts[2] # <<"-">>
           /\ FilteredOut(parts[3], tExts)
           /\ tIdx' = tIdx + 1
           /\ UNCHANGED <<tpc, added, deleted>>
        \/ /\ Len(parts) = 3
           /\ parts[1] # <<"-">> /\ parts[2] # <<"-">>
           /\ ~FilteredOut(parts[3], tExts)
           /\ added' = added + IntOf(parts[1])
           /\ deleted' = deleted + IntOf(parts[2])
           /\ tIdx' = tIdx + 1
           /\ UNCHANGED tpc
    /\ UNCHANGED <<tLines, tExts>>
    /\ UNCHANGED <<stripVars, syncVars, runnerVars, scanVars>>

\* return added, deleted
TallyReturn ==
    /\ tpc = "loop"
    /\ tIdx = Len(tLines)
    /\ tpc' = "done"
    /\ UNCHANGED <<tLines, tExts, tIdx, added, deleted>>
    /\ UNCHANGED <<stripVars, syncVars, runnerVars, scanVars>>

InitTally == TallyInit /\ StripIdle /\ SyncIdle /\ RunnerIdle /\ ScanIdle

NextTally == TallyLine \/ TallyReturn

SpecTally == InitTally /\ [][NextTally]_vars

\* ------------------------------------------------------------------ claims on the tally
\* The records the claim counts: at least 3 fields, no count "-", and a path
\* (the text after the second tab) with one of the suffixes when any is given.
Counted(line, exts) ==
    /\ Len(Split(line)) >= 3
    /\ Split(line)[1] # <<"-">> /\ Split(line)[2] # <<"-">>
    /\ ~FilteredOut(Split(line)[Len(Split(line))], exts)

RECURSIVE SumOver(_, _, _)
SumOver(lines, exts, column) ==
    IF lines = <<>> THEN 0
    ELSE (IF Counted(Head(lines), exts) THEN IntOf(Split(Head(lines))[column]) ELSE 0)
             + SumOver(Tail(lines), exts, column)

\* C9: tally ends by returning, for every list of records, and returns the sums
\* of the two counts over exactly the counted records.
C9_TallyIsSumOfCounted ==
    tpc \in {"done", "raised"} =>
        /\ tpc = "done"
        /\ added = SumOver(tLines, tExts, 1)
        /\ deleted = SumOver(tLines, tExts, 2)

\* ------------------------------------------------------------------ find_ui_tests.py
\* A line of a source file is a sequence of pieces; the file is the sequence
\* of its lines (str.splitlines()).

\* line.lstrip(): the line without its leading indentation
LStripLine(line) == LStrip(line, {"s"})

\* line.lstrip().startswith("@Test")
StartsWithTest(line) ==
    LStripLine(line) # <<>> /\ Head(LStripLine(line)) = "T"

\* re.match of optional blanks, the keyword fun and a blank, at the line's start
StartsWithFun(line) ==
    LStripLine(line) # <<>> /\ Head(LStripLine(line)) \in {"a", "b", "q"}

\* line.count(c)
CountOf(line, c) == Cardinality({k \in DOMAIN line : line[k] = c})

\* The pieces of a line that declare a function, in order.
DeclsIn(line, kinds) == SelectSeq(line, LAMBDA piece : piece \in kinds)

\* _METHOD_DECL_RE_BACKTICK.search(line), then _METHOD_DECL_RE_ID.search(line):
\* the declared name, <<>> when neither matches.
DeclName(line) ==
    IF DeclsIn(line, {"q"}) # <<>> THEN <<"a">>
    ELSE IF DeclsIn(line, {"a", "b"}) # <<>> THEN <<Head(DeclsIn(line, {"a", "b"}))>>
    ELSE <<>>

\* The inner while loop of extract_ui_test_names from line j on: the line of
\* the declaration and its name; name = <<>> when method_name stays None.
RECURSIVE FindDecl(_, _)
FindDecl(lines, j) ==
    IF j >= Len(lines) THEN [name |-> <<>>, j |-> j]
    ELSE IF DeclName(lines[j + 1]) # <<>> THEN [name |-> DeclName(lines[j + 1]), j |-> j]
    ELSE IF StartsWithTest(lines[j + 1]) THEN [name |-> <<>>, j |-> j]
    ELSE FindDecl(lines, j + 1)

\* "\n".join(body_parts)
RECURSIVE JoinLines(_)
JoinLines(parts) ==
    IF parts = <<>> THEN <<>>
    ELSE IF Len(parts) = 1 THEN parts[1]
    ELSE parts[1] \o <<"n">> \o JoinLines(Tail(parts))

\* The while loop of _collect_method_body with the break test on the depth
\* being exactly zero.
RECURSIVE CollectLoop_ExactZero(_, _, _, _)
CollectLoop_ExactZero(lines, i, open_braces, body_parts) ==
    IF i >= Len(lines) THEN [body |-> JoinLines(body_parts), next |-> i]
    ELSE IF /\ open_braces + CountOf(lines[i + 1], "{") - CountOf(lines[i + 1], "}") = 0
            /\ i + 1 < Len(lines)
            /\ StartsWithTest(lines[i + 2]) \/ StartsWithFun(lines[i + 2])
         THEN [body |-> JoinLines(Append(body_parts, lines[i + 1])), next |-> i + 1]
         ELSE CollectLoop_ExactZero(lines, i + 1,
                  open_braces + CountOf(lines[i + 1], "{") - CountOf(lines[i + 1], "}"),
                  Append(body_parts, lines[i + 1]))

\* The while loop of _collect_method_body: i, open_braces and body_parts at
\* the loop test.
RECURSIVE CollectLoop(_, _, _, _)
CollectLoop(lines, i, open_braces, body_parts) ==
    IF i >= Len(lines) THEN [body |-> JoinLines(body_parts), next |-> i]
    ELSE IF /\ open_braces + CountOf(lines[i + 1], "{") - CountOf(lines[i + 1], "}") <= 0
            /\ i + 1 < Len(lines)
            /\ StartsWithTest(lines[i + 2]) \/ StartsWithFun(lines[i + 2])
         THEN [body |-> JoinLines(Append(body_parts, lines[i + 1])), next |-> i + 1]
         ELSE CollectLoop(lines, i + 1,
                  open_braces + CountOf(lines[i + 1], "{") - CountOf(lines[i + 1], "}"),
                  Append(body_parts, lines[i + 1]))

\* _collect_method_body(lines, start_idx)
CollectMethodBody(lines, start_idx) == CollectLoop(lines, start_idx, 0, <<>>)

\* _looks_like_ui_test(body)
LooksLikeUiTest(body) == \E k \in DOMAIN body : body[k] = "u"

ScanLineSet ==
    { <<"s", "T">>,                     \* an indented @Test
      <<"a", "{">>,                     \* fun a() {
      <<"s", "b", "{", "u", "}">>,      \* an indented one-line fun b with a UI call
      <<"m", "a", "{">>,                \* private fun a() {
      <<"u">>,                          \* a UI call
      <<"}">> }

ScanFiles == UNION { [1..k -> ScanLineSet] : k \in 0..MaxScanLines }

ScanInit ==
    /\ fpc = "loop"
    /\ fLines \in ScanFiles
    /\ fIdx = 0
    /\ uiTestNames = <<>>
    /\ calls = <<>>

\* An iteration on a line that is no @Test annotation.
ScanOtherLine ==
    /\ fpc = "loop"
    /\ fIdx < Len(fLines)
    /\ ~StartsWithTest(fLines[fIdx + 1])
    /\ fIdx' = fIdx + 1
    /\ UNCHANGED <<fpc, fLines, uiTestNames, calls>>
    /\ UNCHANGED <<stripVars, syncVars, runnerVars, tallyVars>>

\* An iteration on an @Test line after which no declaration is found.
ScanNoDecl ==
    /\ fpc = "loop"
    /\ fIdx < Len(fLines)
    /\ StartsWithTest(fLines[fIdx + 1])
    /\ FindDecl(fLines, fIdx + 1).name = <<>>
    /\ fIdx' = fIdx + 1
    /\ UNCHANGED <<fpc, fLines, uiTestNames, calls>>
    /\ UNCHANGED <<stripVars, syncVars, runnerVars, tallyVars>>

\* An iteration on an @Test line followed by a declaration: collect the body,
\* keep the name of a UI test, go on at the returned index.
ScanMethod ==
    /\ fpc = "loop"
    /\ fIdx < Len(fLines)
    /\ StartsWithTest(fLines[fIdx + 1])
    /\ \E d \in {FindDecl(fLines, fIdx + 1)} :
           /\ d.name # <<>>
           /\ \E r \in {CollectMethodBody(fLines, d.j)} :
                  /\ uiTestNames' = IF LooksLikeUiTest(r.body)
                                    THEN Append(uiTestNames, d.name)
                                    ELSE uiTestNames
                  /\ calls' = Append(calls, [start |-> d.j, body |-> r.body,
                                             next |-> r.next, idx |-> fIdx])
                  /\ fIdx' = r.next
    /\ UNCHANGED <<fpc, fLines>>
    /\ UNCHANGED <<stripVars, syncVars, runnerVars, tallyVars>>

\* return ui_test_names
ScanReturn ==
    /\ fpc = "loop"
    /\ fIdx >= Len(fLines)
    /\ fpc' = "done"
    /\ UNCHANGED <<fLines, fIdx, uiTestNames, calls>>
    /\ UNCHANGED <<stripVars, syncVars, runnerVars, tallyVars>>

InitScan == ScanInit /\ StripIdle /\ SyncIdle /\ RunnerIdle /\ TallyIdle

NextScan == ScanOtherLine \/ ScanNoDecl \/ ScanMethod \/ ScanReturn

\* The script is one thread that runs to completion.
SpecScan == InitScan /\ [][NextScan]_vars /\ WF_vars(NextScan)

\* ------------------------------------------------------------------ claims on the scanner
\* The running brace depth after the lines start .. k-1 (0-based).
RECURSIVE DepthAfter(_, _, _)
DepthAfter(lines, start, k) ==
    IF k <= start THEN 0
    ELSE DepthAfter(lines, start, k - 1) + CountOf(lines[k], "{") - CountOf(lines[k], "}")

\* The line begins, after its indentation, an @Test annotation or a function
\* declaration.
BeginsTestOrFun(line) ==
    \E k \in DOMAIN line :
        /\ line[k] \in {"T", "a", "b", "q"}
        /\ \A h \in 1..(k - 1) : line[h] = "s"

\* Accumulation may stop before line k: the file ends there, or the depth is
\* zero or below and line k begins an annotation or a declaration.
MayStopAt(lines, start, k) ==
    \/ k = Len(lines)
    \/ /\ k < Len(lines)
       /\ DepthAfter(lines, start, k) <= 0
       /\ BeginsTestOrFun(lines[k + 1])

CallsStopAtFirstBoundary ==
    \A c \in DOMAIN calls :
        /\ calls[c].start < calls[c].next
        /\ calls[c].next <= Len(fLines)
        /\ MayStopAt(fLines, calls[c].start, calls[c].next)
        /\ \A k \in (calls[c].start + 1)..(calls[c].next - 1) :
               ~MayStopAt(fLines, calls[c].start, k)
        /\ calls[c].body = JoinLines(SubSeq(fLines, calls[c].start + 1, calls[c].next))
        /\ calls[c].idx < calls[c].start

ScannedPackages == { <<>>, <<"p">> }

\* file_path.stem
ScannedStems == { "A", "B", "C" }

\* The method names extract_ui_test_names returns.
ScannedMethods == { "a", "b" }

\* fqmn: the package and a dot when there is a package, then the class name, a
\* dot and the method name; the line as its dot-separated parts.
Fqmn(pkg, class_name, method) ==
    (IF pkg # <<>> THEN pkg ELSE <<>>) \o <<class_name>> \o <<method>>

\* Every line write_fully_qualified_method_names can write.
ScannerLines ==
    { Fqmn(pkg, class_name, method) :
        pkg \in ScannedPackages, class_name \in ScannedStems, method \in ScannedMethods }

\* ------------------------------------------------------------------ claims on the hand-off
\* The FQN list at the old ref was written by the scanner and the run ended
\* after reading it.
EndedOnScannerList ==
    /\ pc = "exit"
    /\ failedOp \notin {"not a repository", "status", "dirty", "show fqns"}
    /\ fqnsText # <<>>
    /\ \A k \in DOMAIN fqnsText : fqnsText[k] \in ScannerLines

\* C13: when every line of the FQN list is one the scanner can write (the
\* form Class.method of a file without a package statement included), parse_fqns
\* and fqcn_to_candidate_paths raise no unhandled error: the run does not end
\* in either of them, and every class of the list is resolved to one of its
\* candidate paths or warned about as NOT FOUND.
C13_ScannerLinesAccepted ==
    EndedOnScannerList =>
        /\ failedOp \notin {"parse", "candidates"}
        /\ \A k \in DOMAIN fqnsText :
               LET cls == SubSeq(fqnsText[k], 1, Len(fqnsText[k]) - 1)
               IN  \/ \E path \in DOMAIN perFile :
                          path.base = cls[Len(cls)] /\ path.ext \in {".kt", ".java"}
                   \/ \E w \in DOMAIN warnings : warnings[w] = cls

====
